---- MODULE Spec2Model ----
(***************************************************************************)
(* Text selection of a terminal grid: src/src/selection.rs.                *)
(*                                                                         *)
(* A Selection is built by one of three constructors (simple, semantic,    *)
(* lines), changed by update and rotate, and resolved by to_span into an   *)
(* Option<Span>; Span::to_locations turns a Span into Locations.           *)
(* Lines grow upward in this code: the "front" of a span is its bottom     *)
(* right end and the "tail" its top left end.                              *)
(***************************************************************************)
EXTENDS Integers, FiniteSets, Sequences, TLC

VARIABLES
    dims,         \* the grid's dimensions(): [line |-> lines, col |-> cols]
    sel,          \* the Selection
    ctor,         \* history: the constructor call that made sel
    lastUpd,      \* history: the arguments of the latest update, if any
    nUpd,         \* history: number of update calls, saturating at 2
    rotSum,       \* history: sum of all rotate offsets
    rotSinceUpd,  \* history: sum of the rotate offsets since the latest update
    rotated,      \* history: rotate was called at least once
    out           \* the value returned by the latest call, when it was to_span
                  \* or to_locations on the present selection

vars == <<dims, sel, ctor, lastUpd, nUpd, rotSum, rotSinceUpd, rotated, out>>

(***************************************************************************)
(* Bounds of the model.                                                    *)
(***************************************************************************)
MaxLines == 2     \* grids have 1 or MaxLines lines
MaxCols == 2      \* grids have 1 or MaxCols columns
MaxOffset == 1    \* rotate offsets are -MaxOffset..MaxOffset
MaxScroll == 1    \* rotate keeps every line within MaxScroll of the viewport
UsizeBits == 8    \* width of the model's usize

UsizeModulus == 2 ^ UsizeBits

(***************************************************************************)
(* Option, Point, Side, Anchor.                                            *)
(***************************************************************************)
None == [some |-> FALSE]
Some(v) == [some |-> TRUE, val |-> v]

Min(a, b) == IF a <= b THEN a ELSE b

Max(a, b) == IF a >= b THEN a ELSE b

Sides == {"Left", "Right"}

Point(l, c) == [line |-> l, col |-> c]

\* Point's derived ordering: line first, then column.
PointLt(a, b) == a.line < b.line \/ (a.line = b.line /\ a.col < b.col)

PointLe(a, b) == a = b \/ PointLt(a, b)

\* Point<isize> -> Point<usize>: the line is cast to usize.
IntoUsize(p) == Point(p.line % UsizeModulus, p.col)

\* Point<usize> -> Point<isize>.
IntoIsize(p) == Point(p.line, p.col)

AnchorNew(point, side) == [point |-> point, side |-> side]

\* The grids of the model and the points inside one.
GridSizes == {Point(l, c) : l \in {1, MaxLines}, c \in {1, MaxCols}}

GridPoints(d) == {Point(l, c) : l \in 0..(d.line - 1), c \in 0..(d.col - 1)}

\* What the grid holds: the columns of its word separators. Only a Semantic
\* selection reads them (span_simple and span_lines take G: Dimensions).
SepSets(kind) == IF kind = "Semantic" THEN {{}, {1}} ELSE {{}}

Offsets == (-MaxOffset)..MaxOffset

(***************************************************************************)
(* The grid's capabilities: Dimensions and SemanticSearch.                 *)
(***************************************************************************)
InGrid(d, p) == p.line \in 0..(d.line - 1) /\ p.col \in 0..(d.col - 1)

\* The nearest word boundary at or left of p on p's line.
semantic_search_left(d, seps, p) ==
    IF ~InGrid(d, p) THEN p
    ELSE LET stops == {c \in 0..p.col : c = 0 \/ (c - 1) \in seps}
         IN Point(p.line, CHOOSE c \in stops : \A x \in stops : x <= c)

\* The nearest word boundary at or right of p on p's line.
semantic_search_right(d, seps, p) ==
    IF ~InGrid(d, p) THEN p
    ELSE LET stops == {c \in p.col..(d.col - 1) : c = d.col - 1 \/ (c + 1) \in seps}
         IN Point(p.line, CHOOSE c \in stops : \A x \in stops : c <= x)

(***************************************************************************)
(* Selection: constructors and mutators.                                   *)
(***************************************************************************)
simple(location, side) ==
    [kind |-> "Simple",
     region |-> [start |-> AnchorNew(IntoIsize(location), side),
                 end |-> AnchorNew(IntoIsize(location), side)]]

semantic(point) ==
    [kind |-> "Semantic",
     region |-> [start |-> IntoIsize(point), end |-> IntoIsize(point)]]

lines(point) ==
    [kind |-> "Lines",
     region |-> [start |-> IntoIsize(point), end |-> IntoIsize(point)],
     initial_line |-> point.line]

\* A faulty rotate that shifts the start of the region and forgets its end.
rotate_start_only(s, offset) ==
    CASE s.kind = "Simple" ->
           [s EXCEPT !.region.start.point.line = @ + offset]
      [] s.kind = "Semantic" ->
           [s EXCEPT !.region.start.line = @ + offset]
      [] s.kind = "Lines" ->
           [s EXCEPT !.region.start.line = @ + offset,
                     !.initial_line = @ + offset]

\* A faulty rotate that shifts the region and forgets initial_line.
rotate_region_only(s, offset) ==
    IF s.kind = "Simple"
    THEN [s EXCEPT !.region.start.point.line = @ + offset,
                   !.region.end.point.line = @ + offset]
    ELSE [s EXCEPT !.region.start.line = @ + offset,
                   !.region.end.line = @ + offset]

\* A faulty rotate that keeps lines from going below 0.
rotate_saturating(s, offset) ==
    CASE s.kind = "Simple" ->
           [s EXCEPT !.region.start.point.line = Max(0, @ + offset),
                     !.region.end.point.line = Max(0, @ + offset)]
      [] s.kind = "Semantic" ->
           [s EXCEPT !.region.start.line = Max(0, @ + offset),
                     !.region.end.line = Max(0, @ + offset)]
      [] s.kind = "Lines" ->
           [s EXCEPT !.region.start.line = Max(0, @ + offset),
                     !.region.end.line = Max(0, @ + offset),
                     !.initial_line = Max(0, @ + offset)]

rotate(s, offset) ==
    CASE s.kind = "Simple" ->
           [s EXCEPT !.region.start.point.line = @ + offset,
                     !.region.end.point.line = @ + offset]
      [] s.kind = "Semantic" ->
           [s EXCEPT !.region.start.line = @ + offset,
                     !.region.end.line = @ + offset]
      [] s.kind = "Lines" ->
           [s EXCEPT !.region.start.line = @ + offset,
                     !.region.end.line = @ + offset,
                     !.initial_line = @ + offset]

\* A faulty update that moves the end point and keeps the end anchor's side.
update_keep_side(s, location, side) ==
    IF s.kind = "Simple"
    THEN [s EXCEPT !.region.end.point = IntoIsize(location)]
    ELSE [s EXCEPT !.region.end = IntoIsize(location)]

\* A faulty update that moves the start of the region along with its end.
update_both_ends(s, location, side) ==
    IF s.kind = "Simple"
    THEN [s EXCEPT !.region = [start |-> AnchorNew(IntoIsize(location), side),
                               end |-> AnchorNew(IntoIsize(location), side)]]
    ELSE [s EXCEPT !.region = [start |-> IntoIsize(location),
                               end |-> IntoIsize(location)]]

\* A faulty update that only lets the region grow: the end moves only to a
\* point beyond the present end.
update_grow_only(s, location, side) ==
    IF s.kind = "Simple"
    THEN IF PointLt(s.region.end.point, IntoIsize(location))
         THEN [s EXCEPT !.region.end = AnchorNew(IntoIsize(location), side)]
         ELSE s
    ELSE IF PointLt(s.region.end, IntoIsize(location))
         THEN [s EXCEPT !.region.end = IntoIsize(location)]
         ELSE s

update(s, location, side) ==
    IF s.kind = "Simple"
    THEN [s EXCEPT !.region.end = AnchorNew(IntoIsize(location), side)]
    ELSE [s EXCEPT !.region.end = IntoIsize(location)]

(***************************************************************************)
(* Resolution: to_span and its three algorithms.                           *)
(***************************************************************************)
MkSpan(cols, front, tail, ty) ==
    [cols |-> cols, front |-> front, tail |-> tail, ty |-> ty]

\* A faulty ordering that never swaps: start is front and end is tail.
simple_order_unswapped(start, start_side, end, end_side) ==
    [front |-> start, tail |-> end,
     front_side |-> start_side, tail_side |-> end_side]

\* A faulty ordering that takes the anchor on the larger line as front.
simple_order_flipped(start, start_side, end, end_side) ==
    IF start.line < end.line \/ (start.line = end.line /\ start.col <= end.col)
    THEN [front |-> end, tail |-> start,
          front_side |-> end_side, tail_side |-> start_side]
    ELSE [front |-> start, tail |-> end,
          front_side |-> start_side, tail_side |-> end_side]

\* span_simple, "Make sure front is always the bottom and tail is always the
\* top": the two anchors in the order (front, tail), with their sides.
simple_order(start, start_side, end, end_side) ==
    IF start.line > end.line \/ (start.line = end.line /\ start.col <= end.col)
    THEN [front |-> end, tail |-> start,
          front_side |-> end_side, tail_side |-> start_side]
    ELSE [front |-> start, tail |-> end,
          front_side |-> start_side, tail_side |-> end_side]

\* A faulty test that rejects a selection whose front is on a negative line.
simple_is_none_front_negative(o) ==
    \/ (o.front = o.tail /\ o.front_side = o.tail_side)
    \/ (o.tail_side = "Right" /\ o.front_side = "Left"
          /\ o.front.line = o.tail.line /\ o.front.col = o.tail.col + 1)
    \/ o.front.line < 0

\* A faulty test that misses the click without drag.
simple_is_none_no_click(o) ==
    \/ (o.tail_side = "Right" /\ o.front_side = "Left"
          /\ o.front.line = o.tail.line /\ o.front.col = o.tail.col + 1)
    \/ o.tail.line < 0

\* A faulty test that misses the gap between two adjacent cells.
simple_is_none_no_gap(o) ==
    \/ (o.front = o.tail /\ o.front_side = o.tail_side)
    \/ o.tail.line < 0

\* span_simple, "No selection for single cell with identical sides or two
\* cell with right+left sides", or with the tail on a negative line.
simple_is_none(o) ==
    \/ (o.front = o.tail /\ o.front_side = o.tail_side)
    \/ (o.tail_side = "Right" /\ o.front_side = "Left"
          /\ o.front.line = o.tail.line /\ o.front.col = o.tail.col + 1)
    \/ o.tail.line < 0

\* A faulty shrink that applies only when the front anchor is the start of
\* the gesture.
simple_shrink_front_of_start(o, start, end, cols) ==
    IF o.front_side = "Left" /\ start # end /\ o.front = start
    THEN IF o.front.col = 0
         THEN Point(o.front.line + 1, cols - 1)
         ELSE Point(o.front.line, o.front.col - 1)
    ELSE o.front

\* A faulty shrink that wraps from column 0 to the line below.
simple_shrink_front_below(o, start, end, cols) ==
    IF o.front_side = "Left" /\ start # end
    THEN IF o.front.col = 0
         THEN Point(o.front.line - 1, cols - 1)
         ELSE Point(o.front.line, o.front.col - 1)
    ELSE o.front

\* A faulty shrink that also applies when both anchors are on one cell.
simple_shrink_front_always(o, start, end, cols) ==
    IF o.front_side = "Left"
    THEN IF o.front.col = 0
         THEN Point(o.front.line + 1, cols - 1)
         ELSE Point(o.front.line, o.front.col - 1)
    ELSE o.front

\* span_simple, "Remove last cell if selection ends to the left of a cell".
simple_shrink_front(o, start, end, cols) ==
    IF o.front_side = "Left" /\ start # end
    THEN IF o.front.col = 0
         THEN Point(o.front.line + 1, cols - 1)
         ELSE Point(o.front.line, o.front.col - 1)
    ELSE o.front

\* A faulty adjustment that leaves a tail anchor of side Right in place.
simple_grow_tail_never(o, front) == o.tail

\* span_simple, "Remove first cell if selection starts at the right of a
\* cell"; front is the front after simple_shrink_front.
simple_grow_tail(o, front) ==
    IF o.tail_side = "Right" /\ front # o.tail
    THEN Point(o.tail.line, o.tail.col + 1)
    ELSE o.tail

\* A faulty clamp that puts the front on the first column of line 0.
simple_clamp_front_first_col(front, cols, alt_screen) ==
    IF alt_screen /\ front.line < 0 THEN Point(0, 0) ELSE front

\* span_simple, "Clamp selection below viewport to visible region".
simple_clamp_front(front, cols, alt_screen) ==
    IF alt_screen /\ front.line < 0 THEN Point(0, cols - 1) ELSE front

\* span_simple up to the construction of the Span: the two endpoints as
\* signed points, before their conversion to Point<usize>.
simple_ends(d, region, alt_screen) ==
    LET start == region.start.point
        end == region.end.point
        cols == d.col
        o == simple_order(start, region.start.side, end, region.end.side)
        front == simple_shrink_front(o, start, end, cols)
        tail == simple_grow_tail(o, front)
    IN IF simple_is_none(o) THEN None
       ELSE Some([front |-> simple_clamp_front(front, cols, alt_screen),
                  tail |-> tail])

span_simple(d, region, alt_screen) ==
    LET e == simple_ends(d, region, alt_screen)
    IN IF ~e.some THEN None
       ELSE Some(MkSpan(d.col, IntoUsize(e.val.front), IntoUsize(e.val.tail),
                        "Inclusive"))

\* A faulty resolution that hands the ends of the region to the search as
\* they are, without the clamps of the alternate screen.
semantic_ends_unclamped(d, region, alt_screen) ==
    LET front0 == IF PointLt(region.start, region.end)
                  THEN region.start ELSE region.end
        tail0 == IF PointLt(region.start, region.end)
                 THEN region.end ELSE region.start
    IN IF alt_screen /\ (front0.line >= d.line \/ tail0.line < 0) THEN None
       ELSE Some([front |-> front0, tail |-> tail0])

\* A faulty resolution that gives up on the alternate screen as soon as one
\* end of the region is outside the viewport.
semantic_ends_any_off_screen(d, region, alt_screen) ==
    LET front0 == IF PointLt(region.start, region.end)
                  THEN region.start ELSE region.end
        tail0 == IF PointLt(region.start, region.end)
                 THEN region.end ELSE region.start
    IN IF alt_screen /\ (tail0.line >= d.line \/ front0.line < 0) THEN None
       ELSE Some([front |-> front0, tail |-> tail0])

\* span_semantic up to the semantic search: the two points handed to the
\* search, as signed points, in the order (front, tail).
semantic_ends(d, region, alt_screen) ==
    LET cols == d.col
        lines_ == d.line
        front0 == IF PointLt(region.start, region.end)
                  THEN region.start ELSE region.end
        tail0 == IF PointLt(region.start, region.end)
                 THEN region.end ELSE region.start
        tail1 == IF alt_screen /\ tail0.line >= lines_
                 THEN Point(lines_ - 1, 0) ELSE tail0
        front1 == IF alt_screen /\ front0.line < 0
                  THEN Point(0, cols - 1) ELSE front0
    IN IF alt_screen /\ tail0.line >= lines_ /\ front0.line >= lines_ THEN None
       ELSE IF alt_screen /\ front0.line < 0 /\ tail1.line < 0 THEN None
       ELSE Some([front |-> front1, tail |-> tail1])

\* A faulty resolution that does not put the expanded points in order.
span_semantic_unordered(d, seps, region, alt_screen) ==
    LET e == semantic_ends(d, region, alt_screen)
    IN IF ~e.some THEN None
       ELSE LET front == e.val.front
                tail == e.val.tail
                forward == PointLt(front, tail) /\ front.line = tail.line
                start == IF forward
                         THEN semantic_search_left(d, seps, IntoUsize(front))
                         ELSE semantic_search_right(d, seps, IntoUsize(front))
                end == IF forward
                       THEN semantic_search_right(d, seps, IntoUsize(tail))
                       ELSE semantic_search_left(d, seps, IntoUsize(tail))
            IN Some(MkSpan(d.col, start, end, "Inclusive"))

\* A faulty resolution that always expands front leftward and tail
\* rightward.
span_semantic_left_right(d, seps, region, alt_screen) ==
    LET e == semantic_ends(d, region, alt_screen)
    IN IF ~e.some THEN None
       ELSE LET start == semantic_search_left(d, seps, IntoUsize(e.val.front))
                end == semantic_search_right(d, seps, IntoUsize(e.val.tail))
            IN IF PointLt(end, start)
               THEN Some(MkSpan(d.col, end, start, "Inclusive"))
               ELSE Some(MkSpan(d.col, start, end, "Inclusive"))

span_semantic(d, seps, region, alt_screen) ==
    LET e == semantic_ends(d, region, alt_screen)
    IN IF ~e.some THEN None
       ELSE LET front == e.val.front
                tail == e.val.tail
                forward == PointLt(front, tail) /\ front.line = tail.line
                start == IF forward
                         THEN semantic_search_left(d, seps, IntoUsize(front))
                         ELSE semantic_search_right(d, seps, IntoUsize(front))
                end == IF forward
                       THEN semantic_search_right(d, seps, IntoUsize(tail))
                       ELSE semantic_search_left(d, seps, IntoUsize(tail))
            IN IF PointLt(end, start)
               THEN Some(MkSpan(d.col, end, start, "Inclusive"))
               ELSE Some(MkSpan(d.col, start, end, "Inclusive"))

\* A faulty clamp that leaves an end above the viewport where it is.
lines_clamp_end_never(end, cols, lines_, alt_screen) == end

\* A faulty clamp that puts the end on the last visible row and keeps its
\* line's last column.
lines_clamp_end_last_col(end, cols, lines_, alt_screen) ==
    IF alt_screen /\ end.line >= lines_ THEN Point(lines_ - 1, cols - 1) ELSE end

\* span_lines, "Clamp selection above viewport to visible region": the end
\* of a selection that is not wholly above the viewport.
lines_clamp_end(end, cols, lines_, alt_screen) ==
    IF alt_screen /\ end.line >= lines_ THEN Point(lines_ - 1, 0) ELSE end

\* A faulty resolution that takes region.start for the lower and region.end
\* for the upper row, whatever the drag direction.
lines_ends_one_direction(d, region, initial_line, alt_screen) ==
    LET start == Point(Min(initial_line, region.start.line), d.col - 1)
        end == Point(Max(initial_line, region.end.line), 0)
    IN IF alt_screen /\ (start.line >= d.line \/ end.line < 0) THEN None
       ELSE Some([front |-> IF alt_screen /\ start.line < 0
                            THEN Point(0, d.col - 1) ELSE start,
                  tail |-> IF alt_screen /\ end.line >= d.line
                           THEN Point(d.line - 1, 0) ELSE end])

\* A faulty resolution that spans only the row of region.end.
lines_ends_end_row_only(d, region, initial_line, alt_screen) ==
    Some([front |-> Point(region.end.line, d.col - 1),
          tail |-> Point(region.end.line, 0)])

\* span_lines up to the construction of the Span: the two endpoints as
\* signed points, before their conversion to Point<usize>.
lines_ends(d, region, initial_line, alt_screen) ==
    LET cols == d.col
        lines_ == d.line
        start0 == IF alt_screen /\ initial_line < 0
                  THEN Point(0, cols - 1)
                  ELSE Point(initial_line, cols - 1)
        end0 == Point(initial_line, 0)
        start1 == IF region.start.line < region.end.line
                  THEN Point(Min(start0.line, region.start.line), start0.col)
                  ELSE Point(Min(start0.line, region.end.line), start0.col)
        end1 == IF region.start.line < region.end.line
                THEN Point(Max(end0.line, region.end.line), end0.col)
                ELSE Point(Max(end0.line, region.start.line), end0.col)
        end2 == lines_clamp_end(end1, cols, lines_, alt_screen)
        start2 == IF alt_screen /\ start1.line < 0
                  THEN Point(0, cols - 1) ELSE start1
    IN IF alt_screen /\ end1.line >= lines_ /\ start1.line >= lines_ THEN None
       ELSE IF alt_screen /\ start1.line < 0 /\ end2.line < 0 THEN None
       ELSE Some([front |-> start2, tail |-> end2])

span_lines(d, region, initial_line, alt_screen) ==
    LET e == lines_ends(d, region, initial_line, alt_screen)
    IN IF ~e.some THEN None
       ELSE Some(MkSpan(d.col, IntoUsize(e.val.front), IntoUsize(e.val.tail),
                        "Inclusive"))

to_span(s, d, seps, alt_screen) ==
    CASE s.kind = "Simple" -> span_simple(d, s.region, alt_screen)
      [] s.kind = "Semantic" -> span_semantic(d, seps, s.region, alt_screen)
      [] s.kind = "Lines" -> span_lines(d, s.region, s.initial_line, alt_screen)

(***************************************************************************)
(* Span::to_locations.                                                     *)
(***************************************************************************)
wrap_start(start, cols) ==
    IF start.col = cols - 1
    THEN Point(start.line + 1, 0)
    ELSE Point(start.line, start.col + 1)

\* end.col - 1 is a usize subtraction: at column 0 it wraps here, as in a
\* release build (a debug build panics on the overflow).
wrap_end(end, cols) ==
    IF end.col = 0 /\ end.line # 0
    THEN Point(end.line - 1, cols)
    ELSE Point(end.line, (end.col - 1) % UsizeModulus)

to_locations(span) ==
    CASE span.ty = "Inclusive" -> [start |-> span.front, end |-> span.tail]
      [] span.ty = "Exclusive" ->
           [start |-> wrap_start(span.front, span.cols),
            end |-> wrap_end(span.tail, span.cols)]
      [] span.ty = "ExcludeFront" ->
           [start |-> wrap_start(span.front, span.cols), end |-> span.tail]
      [] span.ty = "ExcludeTail" ->
           [start |-> span.front, end |-> wrap_end(span.tail, span.cols)]

(***************************************************************************)
(* The state machine: a selection is constructed, then updated, rotated    *)
(* and resolved in any order.                                              *)
(***************************************************************************)
NoOut == [op |-> "none"]

\* The lines a selection holds.
SelLines(s) ==
    CASE s.kind = "Simple" ->
           {s.region.start.point.line, s.region.end.point.line}
      [] s.kind = "Semantic" -> {s.region.start.line, s.region.end.line}
      [] s.kind = "Lines" ->
           {s.region.start.line, s.region.end.line, s.initial_line}

Construct(kind, point, side) ==
    CASE kind = "Simple" -> simple(point, side)
      [] kind = "Semantic" -> semantic(point)
      [] kind = "Lines" -> lines(point)

Init ==
    /\ dims \in GridSizes
    /\ ctor \in {c \in [kind : {"Simple", "Semantic", "Lines"},
                        point : GridPoints(dims), side : Sides] :
                   c.kind # "Simple" => c.side = "Left"}
    /\ sel = Construct(ctor.kind, ctor.point, ctor.side)
    /\ lastUpd = None
    /\ nUpd = 0
    /\ rotSum = 0
    /\ rotSinceUpd = 0
    /\ rotated = FALSE
    /\ out = NoOut

Update(location, side) ==
    /\ sel' = update(sel, location, side)
    /\ lastUpd' = Some([point |-> location, side |-> side])
    /\ nUpd' = Min(nUpd + 1, 2)
    /\ rotSinceUpd' = 0
    /\ out' = NoOut
    /\ UNCHANGED <<dims, ctor, rotSum, rotated>>

Rotate(offset) ==
    /\ \A l \in SelLines(rotate(sel, offset)) :
          l >= -MaxScroll /\ l <= dims.line - 1 + MaxScroll
    /\ sel' = rotate(sel, offset)
    /\ rotSum' = rotSum + offset
    /\ rotSinceUpd' = rotSinceUpd + offset
    /\ rotated' = TRUE
    /\ out' = NoOut
    /\ UNCHANGED <<dims, ctor, lastUpd, nUpd>>

\* A faulty to_span that swaps the region's two ends while it resolves.
ToSpan_swapping(seps, alt_screen) ==
    /\ out' = [op |-> "to_span", seps |-> seps, alt_screen |-> alt_screen,
               span |-> to_span(sel, dims, seps, alt_screen)]
    /\ sel' = [sel EXCEPT !.region = [start |-> sel.region.end,
                                      end |-> sel.region.start]]
    /\ UNCHANGED <<dims, ctor, lastUpd, nUpd, rotSum, rotSinceUpd, rotated>>

ToSpan(seps, alt_screen) ==
    /\ out' = [op |-> "to_span", seps |-> seps, alt_screen |-> alt_screen,
               span |-> to_span(sel, dims, seps, alt_screen)]
    /\ UNCHANGED <<dims, sel, ctor, lastUpd, nUpd, rotSum, rotSinceUpd, rotated>>

ToLocations ==
    /\ out.op = "to_span"
    /\ out.span.some
    /\ out' = [op |-> "to_locations", seps |-> out.seps,
               alt_screen |-> out.alt_screen, span |-> out.span,
               locations |-> to_locations(out.span.val)]
    /\ UNCHANGED <<dims, sel, ctor, lastUpd, nUpd, rotSum, rotSinceUpd, rotated>>

Next ==
    \/ \E location \in GridPoints(dims), side \in Sides : Update(location, side)
    \/ \E offset \in Offsets : Rotate(offset)
    \/ \E seps \in SepSets(sel.kind), alt_screen \in BOOLEAN : ToSpan(seps, alt_screen)
    \/ ToLocations

Spec == Init /\ [][Next]_vars

(***************************************************************************)
(* Span::to_locations as a function of the Span: a Span of any SpanType    *)
(* over the points of a grid is given, and to_locations is applied to it.  *)
(***************************************************************************)
SpanTypes == {"Inclusive", "Exclusive", "ExcludeTail", "ExcludeFront"}

\* The Spans over a grid d: both ends on cells of the grid, cols its width.
Spans(d) ==
    {MkSpan(d.col, front, tail, ty) :
        front \in GridPoints(d), tail \in GridPoints(d), ty \in SpanTypes}

InitLoc ==
    /\ dims \in GridSizes
    /\ ctor = [kind |-> "Simple", point |-> Point(0, 0), side |-> "Left"]
    /\ sel = Construct(ctor.kind, ctor.point, ctor.side)
    /\ lastUpd = None
    /\ nUpd = 0
    /\ rotSum = 0
    /\ rotSinceUpd = 0
    /\ rotated = FALSE
    /\ out \in {[op |-> "span", span |-> Some(sp)] : sp \in Spans(dims)}

\* Column is an unsigned integer: taking 1 from column 0 overflows.
ColumnSubOverflows(col, n) == col - n < 0

\* to_locations calls wrap_end on a tail that makes end.col - 1 overflow.
to_locations_overflows(span) ==
    /\ span.ty \in {"Exclusive", "ExcludeTail"}
    /\ ~(span.tail.col = 0 /\ span.tail.line # 0)
    /\ ColumnSubOverflows(span.tail.col, 1)

\* An overflowing subtraction panics in a build with overflow checks and
\* wraps in a build without them (what wrap_end computes).
SpanToLocations ==
    /\ out.op = "span"
    /\ \/ out' = [op |-> "locations", span |-> out.span,
                  locations |-> to_locations(out.span.val)]
       \/ /\ to_locations_overflows(out.span.val)
          /\ out' = [op |-> "panic", span |-> out.span]
    /\ UNCHANGED <<dims, sel, ctor, lastUpd, nUpd, rotSum, rotSinceUpd, rotated>>

NextLoc == SpanToLocations

SpecLoc == InitLoc /\ [][NextLoc]_vars

(***************************************************************************)
(* Vocabulary of the properties.                                           *)
(***************************************************************************)
\* The latest call was to_span (or to_locations on its Span) and the
\* selection has not changed since.
Resolved == out.op \in {"to_span", "to_locations"}

Opposite(side) == IF side = "Left" THEN "Right" ELSE "Left"

\* The selection was built by simple(p, s) followed by exactly one update.
SimpleOneUpdate == ctor.kind = "Simple" /\ nUpd = 1 /\ ~rotated

(***************************************************************************)
(* C1: simple(p, s) then update(p, s') with s' the opposite side of s      *)
(* resolves to Some Span with front = tail = p and type Inclusive.         *)
(***************************************************************************)
C1_Case ==
    /\ SimpleOneUpdate
    /\ lastUpd.val.point = ctor.point
    /\ lastUpd.val.side = Opposite(ctor.side)

C1_SingleCell ==
    (C1_Case /\ Resolved) =>
        out.span = Some(MkSpan(dims.col, ctor.point, ctor.point, "Inclusive"))

C1_Witness ==
    /\ C1_Case /\ Resolved
    /\ ctor.side = "Right"
    /\ ctor.point.col = 0 /\ dims.col > 1
    /\ out.span.some

(***************************************************************************)
(* C2: a Simple selection from (l, c, Right) updated to (l, c+1, Left),    *)
(* and its mirror from (l, c+1, Left) updated to (l, c, Right), resolve to *)
(* None.                                                                   *)
(***************************************************************************)
C2_Case ==
    /\ SimpleOneUpdate
    /\ lastUpd.val.point.line = ctor.point.line
    /\ \/ /\ ctor.side = "Right" /\ lastUpd.val.side = "Left"
          /\ lastUpd.val.point.col = ctor.point.col + 1
       \/ /\ ctor.side = "Left" /\ lastUpd.val.side = "Right"
          /\ ctor.point.col = lastUpd.val.point.col + 1

C2_AdjacentGap == (C2_Case /\ Resolved) => out.span = None

C2_Witness == C2_Case /\ Resolved /\ ctor.side = "Left" /\ ~out.span.some

(***************************************************************************)
(* C3: a Simple selection whose two anchors have the same point and the   *)
(* same side resolves to None: freshly constructed, and after any update   *)
(* sequence whose last update repeats the constructor's point and side.    *)
(***************************************************************************)
C3_Case ==
    /\ sel.kind = "Simple"
    /\ sel.region.start = sel.region.end

C3_SameAnchorNone ==
    /\ (C3_Case /\ Resolved) => out.span = None
    /\ (ctor.kind = "Simple" /\ ~rotated
          /\ (lastUpd.some =>
                lastUpd.val = [point |-> ctor.point, side |-> ctor.side]))
         => C3_Case

C3_Witness ==
    /\ C3_Case /\ Resolved
    /\ nUpd = 2 /\ ~rotated
    /\ ~out.span.some

(***************************************************************************)
(* Cells and half-cell boundaries, as the tests' pictograms draw them:     *)
(* lines grow upward, so the text runs from the highest line to line 0 and *)
(* on each line from column 0 to the last column.                          *)
(***************************************************************************)
\* The place of a cell in reading order.
ReadIdx(d, p) == (d.line - 1 - p.line) * d.col + p.col

\* The cell edge an anchor stands for: the left edge of its cell for side
\* Left, the right edge for side Right.
AnchorEdge(d, a) ==
    ReadIdx(d, a.point) + (IF a.side = "Right" THEN 1 ELSE 0)

\* The cells that lie completely between the two anchors of a region.
CoveredCells(d, region) ==
    LET lo == Min(AnchorEdge(d, region.start), AnchorEdge(d, region.end))
        hi == Max(AnchorEdge(d, region.start), AnchorEdge(d, region.end))
    IN {p \in GridPoints(d) : lo <= ReadIdx(d, p) /\ ReadIdx(d, p) + 1 <= hi}

\* The cells of the grid inside the inclusive range of a Span.
SpanCells(d, span) ==
    {p \in GridPoints(d) :
        ReadIdx(d, span.tail) <= ReadIdx(d, p)
          /\ ReadIdx(d, p) <= ReadIdx(d, span.front)}

\* The endpoints of the resolved selection before the conversion to
\* Point<usize> (for Semantic: the points handed to the semantic search).
Ends(s, d, alt_screen) ==
    CASE s.kind = "Simple" -> simple_ends(d, s.region, alt_screen)
      [] s.kind = "Semantic" -> semantic_ends(d, s.region, alt_screen)
      [] s.kind = "Lines" -> lines_ends(d, s.region, s.initial_line, alt_screen)

(***************************************************************************)
(* C4: for a Simple selection built by simple and update on on-screen      *)
(* points (no rotate, alt_screen off), to_span returns a Span only when at *)
(* least one cell lies completely between the two anchors' half-cell       *)
(* boundaries, and every cell in the returned range is completely covered. *)
(***************************************************************************)
C4_OnlyCoveredCells ==
    (ctor.kind = "Simple" /\ ~rotated /\ Resolved /\ ~out.alt_screen
       /\ out.span.some)
      => /\ CoveredCells(dims, sel.region) # {}
         /\ SpanCells(dims, out.span.val) \subseteq CoveredCells(dims, sel.region)

(***************************************************************************)
(* C5: every Span returned by to_span has front <= tail in Point order     *)
(* (line first, then column), and to_locations returns start <= end.       *)
(***************************************************************************)
C5_FrontLeTail ==
    (Resolved /\ out.span.some)
      => /\ PointLe(out.span.val.front, out.span.val.tail)
         /\ out.op = "to_locations"
              => PointLe(out.locations.start, out.locations.end)

(***************************************************************************)
(* C5, amended: a Semantic Span has front <= tail in Point order.  A       *)
(* Simple or Lines Span has front.line <= tail.line: this holds of the     *)
(* endpoints before their conversion to unsigned points, and of the Span   *)
(* itself whenever its front was not converted from a negative line; on    *)
(* one line its front may be right of its tail.  to_locations returns      *)
(* start = front and end = tail.                                           *)
(***************************************************************************)
C5_SpanOrder ==
    (Resolved /\ out.span.some)
      => LET span == out.span.val
             e == Ends(sel, dims, out.alt_screen).val
         IN /\ sel.kind = "Semantic" => PointLe(span.front, span.tail)
            /\ sel.kind # "Semantic"
                 => /\ e.front.line <= e.tail.line
                    /\ e.front.line >= 0 => span.front.line <= span.tail.line
            /\ out.op = "to_locations"
                 => out.locations = [start |-> span.front, end |-> span.tail]

C5_Witness ==
    /\ out.op = "to_locations"
    /\ sel.kind = "Simple"
    /\ out.span.some
    /\ out.span.val.front.line = out.span.val.tail.line
    /\ out.span.val.front.col > out.span.val.tail.col
    /\ out.locations.start.col > out.locations.end.col

(***************************************************************************)
(* C6: every Span returned by to_span has front.col and tail.col strictly  *)
(* less than the grid's column count; in particular a Simple selection     *)
(* whose tail anchor is on the last column with side Right.                *)
(***************************************************************************)
C6_ColumnsInGrid ==
    (Resolved /\ out.span.some)
      => /\ out.span.val.front.col < dims.col
         /\ out.span.val.tail.col < dims.col

(***************************************************************************)
(* C7: for every reachable selection and either alt_screen value, to_span  *)
(* returns None or a Span none of whose endpoints was produced from a      *)
(* negative line.                                                          *)
(***************************************************************************)
C7_NoNegativeLine ==
    (Resolved /\ out.span.some)
      => LET e == Ends(sel, dims, out.alt_screen).val
         IN e.front.line >= 0 /\ e.tail.line >= 0

(***************************************************************************)
(* C8: after a constructor call and a non-empty sequence of update calls,  *)
(* to_span returns what it returns after the same constructor call and     *)
(* only the last update of the sequence.                                   *)
(***************************************************************************)
C8_LastUpdateOnly ==
    (Resolved /\ nUpd >= 1 /\ ~rotated)
      => out.span =
           to_span(update(Construct(ctor.kind, ctor.point, ctor.side),
                          lastUpd.val.point, lastUpd.val.side),
                   dims, out.seps, out.alt_screen)

C8_Witness ==
    /\ Resolved /\ nUpd = 2 /\ ~rotated
    /\ sel.kind = "Simple"
    /\ lastUpd.val.point # ctor.point
    /\ out.span.some

(***************************************************************************)
(* C9: rotate(o) followed by rotate(-o) leaves the selection equal to its  *)
(* state before the two calls: every step that is rotate(o), o being what  *)
(* the step adds to rotSum, is undone by rotate(-o).                       *)
(***************************************************************************)
C9_RotateBack ==
    [][LET o == rotSum' - rotSum
       IN Rotate(o) => rotate(sel', -o) = sel]_vars

\* Rotations with a net offset other than 0 acted on a Lines selection, and
\* rotating back by that offset gives the selection as constructed.
C9_Witness ==
    /\ sel.kind = "Lines"
    /\ ~lastUpd.some
    /\ rotSum # 0
    /\ sel # Construct(ctor.kind, ctor.point, ctor.side)
    /\ rotate(sel, -rotSum) = Construct(ctor.kind, ctor.point, ctor.side)

(***************************************************************************)
(* C10: every Span returned for a Lines selection has front.col equal to   *)
(* the last column (cols - 1) and tail.col equal to 0.                     *)
(***************************************************************************)
C10_LinesFullRows ==
    (sel.kind = "Lines" /\ Resolved /\ out.span.some)
      => /\ out.span.val.front.col = dims.col - 1
         /\ out.span.val.tail.col = 0

\* A Lines selection dragged upward and rotated partly out of the viewport,
\* resolved on the alternate screen.
C10_Witness ==
    /\ sel.kind = "Lines" /\ Resolved /\ out.span.some
    /\ out.alt_screen
    /\ dims.col > 1
    /\ sel.region.end.line >= dims.line
    /\ sel.region.start.line < sel.region.end.line

(***************************************************************************)
(* C11: for every Lines selection for which to_span returns a Span, the    *)
(* row range of the Span includes initial_line (front.line <= initial_line *)
(* <= tail.line), for every drag direction and either alt_screen value,    *)
(* initial_line being the constructor's line shifted by all rotate         *)
(* offsets.                                                                *)
(***************************************************************************)
C11_IncludesInitialLine ==
    (sel.kind = "Lines" /\ Resolved /\ out.span.some)
      => /\ sel.initial_line = ctor.point.line + rotSum
         /\ out.span.val.front.line <= sel.initial_line
         /\ sel.initial_line <= out.span.val.tail.line

(***************************************************************************)
(* C11, amended: initial_line is the constructor's line shifted by all     *)
(* rotate offsets.  The endpoints of a Lines selection before their        *)
(* conversion to unsigned points satisfy front.line <= initial_line <=     *)
(* tail.line whenever alt_screen is off or initial_line is a row of the    *)
(* viewport, and so does the Span itself when moreover its front was not   *)
(* converted from a negative line.                                         *)
(***************************************************************************)
C11_InitialLineInRange ==
    (sel.kind = "Lines" /\ Resolved /\ out.span.some)
      => LET span == out.span.val
             e == Ends(sel, dims, out.alt_screen).val
             il == sel.initial_line
         IN /\ il = ctor.point.line + rotSum
            /\ (~out.alt_screen \/ (0 <= il /\ il < dims.line))
                 => /\ e.front.line <= il /\ il <= e.tail.line
                    /\ e.front.line >= 0
                         => span.front.line <= il /\ il <= span.tail.line

\* A Lines selection dragged away from its first row and rotated, resolved
\* on the alternate screen with initial_line still in the viewport.
C11_Witness ==
    /\ sel.kind = "Lines" /\ Resolved /\ out.span.some
    /\ out.alt_screen
    /\ rotSum # 0
    /\ sel.region.end.line # sel.initial_line
    /\ 0 <= sel.initial_line /\ sel.initial_line < dims.line
    /\ out.span.val.front.line <= sel.initial_line
    /\ sel.initial_line <= out.span.val.tail.line
    /\ out.span.val.front.line < out.span.val.tail.line

(***************************************************************************)
(* C12: to_span leaves the Selection unchanged, so consecutive to_span     *)
(* calls with the same Selection, the same geometry and the same           *)
(* alt_screen value return equal results: every to_span step keeps sel and *)
(* dims, and when the previous result was for the same separators and      *)
(* alt_screen value, the step returns that result again.                   *)
(***************************************************************************)
C12_ToSpanPure ==
    [][out'.op = "to_span"
         => /\ sel' = sel
            /\ dims' = dims
            /\ (Resolved /\ out.seps = out'.seps
                  /\ out.alt_screen = out'.alt_screen)
                 => out'.span = out.span]_vars

\* to_span was called on an updated and rotated selection, its Span was
\* used, and a further to_span call with the same arguments is a step from
\* here that returns the recorded result.
C12_Witness ==
    /\ out.op = "to_locations"
    /\ nUpd >= 1 /\ rotated
    /\ sel.region.start # sel.region.end
    /\ out.span.some
    /\ to_span(sel, dims, out.seps, out.alt_screen) = out.span

(***************************************************************************)
(* C13: update(point, side) changes only the end endpoint of the active    *)
(* region: for every variant, region.start (point and, for Simple, side),  *)
(* the variant tag and, for Lines, initial_line are the same after the     *)
(* call as before it.                                                      *)
(***************************************************************************)
C13_UpdateKeepsStart ==
    [][(lastUpd'.some /\ Update(lastUpd'.val.point, lastUpd'.val.side))
         => /\ sel'.kind = sel.kind
            /\ sel'.region.start = sel.region.start
            /\ sel.kind = "Lines" => sel'.initial_line = sel.initial_line]_vars

\* A rotated Lines selection has just been updated to a row other than its
\* first one.
C13_Witness ==
    /\ sel.kind = "Lines"
    /\ nUpd >= 1 /\ rotSinceUpd = 0 /\ rotSum # 0
    /\ out = NoOut
    /\ sel.region.end = lastUpd.val.point
    /\ sel.region.end # sel.region.start
    /\ sel.region.start = Point(ctor.point.line + rotSum, ctor.point.col)
    /\ sel.initial_line = ctor.point.line + rotSum

(***************************************************************************)
(* C14: after a constructor call at point p followed by any interleaving   *)
(* of update and rotate calls, region.start is p with its line increased   *)
(* by the sum of all rotate offsets (column and side unchanged);           *)
(* region.end is the point (and side) of the most recent update, or p if   *)
(* there was none, with its line increased by the sum of the rotate        *)
(* offsets applied after that update; and for Lines, initial_line is       *)
(* p.line plus the sum of all rotate offsets.                              *)
(***************************************************************************)
C14_ExpectedStart == Point(ctor.point.line + rotSum, ctor.point.col)

C14_ExpectedEnd ==
    IF lastUpd.some
    THEN Point(lastUpd.val.point.line + rotSinceUpd, lastUpd.val.point.col)
    ELSE Point(ctor.point.line + rotSum, ctor.point.col)

C14_ExpectedEndSide == IF lastUpd.some THEN lastUpd.val.side ELSE ctor.side

C14_RegionHistory ==
    /\ sel.kind = ctor.kind
    /\ sel.kind = "Simple"
         => /\ sel.region.start = AnchorNew(C14_ExpectedStart, ctor.side)
            /\ sel.region.end = AnchorNew(C14_ExpectedEnd, C14_ExpectedEndSide)
    /\ sel.kind # "Simple"
         => /\ sel.region.start = C14_ExpectedStart
            /\ sel.region.end = C14_ExpectedEnd
    /\ sel.kind = "Lines" => sel.initial_line = ctor.point.line + rotSum

\* A Lines selection rotated before and after its latest update, by offsets
\* whose sums differ.
C14_Witness ==
    /\ sel.kind = "Lines"
    /\ lastUpd.some
    /\ rotSinceUpd # 0 /\ rotSum # rotSinceUpd
    /\ lastUpd.val.point # ctor.point
    /\ sel.region.end.line = lastUpd.val.point.line + rotSinceUpd
    /\ sel.initial_line = ctor.point.line + rotSum

(***************************************************************************)
(* C15: for Semantic and Lines selections the side argument of update has  *)
(* no effect: from the same state, update(p, Left) and update(p, Right)    *)
(* produce equal selections and therefore equal to_span results; for       *)
(* Simple selections the two calls produce selections that differ in the   *)
(* end anchor's side.                                                      *)
(***************************************************************************)
C15_SideOnlyForSimple ==
    \A p \in GridPoints(dims) :
        LET l == update(sel, p, "Left")
            r == update(sel, p, "Right")
        IN /\ sel.kind # "Simple"
                => /\ l = r
                   /\ Resolved
                        => to_span(l, dims, out.seps, out.alt_screen)
                             = to_span(r, dims, out.seps, out.alt_screen)
           /\ sel.kind = "Simple"
                => /\ l.region.end.side = "Left"
                   /\ r.region.end.side = "Right"
                   /\ l = [r EXCEPT !.region.end.side = "Left"]

\* A Semantic selection last changed by update(p, Right) away from its
\* start and then resolved: update(p, Left) gives the same selection and
\* the same Span.
C15_Witness ==
    /\ sel.kind = "Semantic"
    /\ lastUpd.some /\ lastUpd.val.side = "Right"
    /\ rotSinceUpd = 0
    /\ sel.region.end # sel.region.start
    /\ sel = update(sel, lastUpd.val.point, "Left")
    /\ Resolved /\ out.span.some
    /\ out.span = to_span(update(sel, lastUpd.val.point, "Left"), dims,
                          out.seps, out.alt_screen)

(***************************************************************************)
(* C16: to_locations on a Span of type Exclusive or ExcludeTail whose tail *)
(* is at column 0 of a line greater than 0 returns an end point on the     *)
(* previous line (tail.line - 1) at that line's last column (cols - 1,     *)
(* with cols the column count stored in the Span).                         *)
(***************************************************************************)
C16_WrapEndLastColumn ==
    (out.op = "locations"
       /\ out.span.val.ty \in {"Exclusive", "ExcludeTail"}
       /\ out.span.val.tail.col = 0 /\ out.span.val.tail.line > 0)
      => out.locations.end =
           Point(out.span.val.tail.line - 1, out.span.val.cols - 1)

(***************************************************************************)
(* The ordering span_simple makes of the two anchors of the selection.     *)
(***************************************************************************)
SimpleOrdered ==
    simple_order(sel.region.start.point, sel.region.start.side,
                 sel.region.end.point, sel.region.end.side)

\* The ordering takes anchor f as front and anchor t as tail.
OrderedAs(o, f, t) ==
    o = [front |-> f.point, front_side |-> f.side,
         tail |-> t.point, tail_side |-> t.side]

\* The two anchors in either order.
AnchorPairs ==
    {<<sel.region.start, sel.region.end>>, <<sel.region.end, sel.region.start>>}

(***************************************************************************)
(* C17: in Simple resolution the two anchors are ordered so that, when     *)
(* they are on different lines, the anchor with the larger line number     *)
(* becomes front (and the other tail), and when they are on the same line, *)
(* the anchor with the smaller-or-equal column becomes front.              *)
(***************************************************************************)
C17_LargerLineFront ==
    (sel.kind = "Simple" /\ Resolved)
      => \E ft \in AnchorPairs :
            LET f == ft[1].point
                t == ft[2].point
            IN /\ OrderedAs(SimpleOrdered, ft[1], ft[2])
               /\ f.line # t.line => f.line > t.line
               /\ f.line = t.line => f.col <= t.col

(***************************************************************************)
(* C17, amended: when the two anchors are on different lines, the anchor   *)
(* with the smaller line number becomes front (and the other tail), and    *)
(* when they are on the same line, the anchor with the larger-or-equal     *)
(* column becomes front.                                                   *)
(***************************************************************************)
C17_SmallerLineFront ==
    (sel.kind = "Simple" /\ Resolved)
      => \E ft \in AnchorPairs :
            LET f == ft[1].point
                t == ft[2].point
            IN /\ OrderedAs(SimpleOrdered, ft[1], ft[2])
               /\ f.line # t.line => f.line < t.line
               /\ f.line = t.line => f.col >= t.col

\* A Simple selection dragged from a lower line to a higher one and
\* resolved: the start anchor is front; its Span runs from the start's line
\* up to the end's line.
C17_Witness ==
    /\ sel.kind = "Simple" /\ Resolved /\ out.span.some
    /\ sel.region.start.point.line < sel.region.end.point.line
    /\ sel.region.start.point.line >= 0
    /\ OrderedAs(SimpleOrdered, sel.region.start, sel.region.end)
    /\ sel.region.start.side = "Right"
    /\ out.span.val.front = sel.region.start.point
    /\ out.span.val.tail.line = sel.region.end.point.line

(***************************************************************************)
(* C18: in Simple resolution, when the front anchor has side Left, the two *)
(* anchor points differ and the front anchor is at column 0, the resolved  *)
(* front is moved to the last column of the previous line (line - 1,       *)
(* column cols - 1); when the front anchor is at a column greater than 0   *)
(* it is moved one column left on the same line.                           *)
(***************************************************************************)
C18_Case ==
    /\ sel.kind = "Simple" /\ Resolved /\ out.span.some
    /\ SimpleOrdered.front_side = "Left"
    /\ sel.region.start.point # sel.region.end.point

\* The resolved front is the point moved, after the clamp of a negative
\* line on the alternate screen.
C18_FrontIs(moved) ==
    LET e == Ends(sel, dims, out.alt_screen).val
    IN /\ e.front = simple_clamp_front(moved, dims.col, out.alt_screen)
       /\ e.front.line >= 0 => out.span.val.front = e.front

C18_WrapToLineBelow ==
    C18_Case
      => LET f == SimpleOrdered.front
         IN IF f.col = 0
            THEN C18_FrontIs(Point(f.line - 1, dims.col - 1))
            ELSE C18_FrontIs(Point(f.line, f.col - 1))

(***************************************************************************)
(* C18, amended: under the same conditions a front anchor at column 0 is   *)
(* moved to the last column of the line above (line + 1, column cols - 1), *)
(* and one at a column greater than 0 is moved one column left on the same *)
(* line, before the alternate-screen clamp of a negative front line.       *)
(***************************************************************************)
C18_WrapToLineAbove ==
    C18_Case
      => LET f == SimpleOrdered.front
         IN IF f.col = 0
            THEN C18_FrontIs(Point(f.line + 1, dims.col - 1))
            ELSE C18_FrontIs(Point(f.line, f.col - 1))

\* A front anchor at the left edge of column 0 below the tail's line: the
\* Span's front is the last cell of the line above the anchor, and is not
\* the tail.
C18_Witness ==
    /\ C18_Case
    /\ dims.col > 1
    /\ SimpleOrdered.front.col = 0
    /\ SimpleOrdered.front.line >= 0
    /\ out.span.val.front =
         Point(SimpleOrdered.front.line + 1, dims.col - 1)
    /\ out.span.val.front # out.span.val.tail

(***************************************************************************)
(* C19: for a Simple selection whose two anchors are on different          *)
(* on-screen lines and both carry side Right, to_span returns Some Span    *)
(* whose front is the point of the anchor on the smaller line, unchanged,  *)
(* and whose tail is the point of the anchor on the larger line moved one  *)
(* column to the right, independent of which of the two anchors was the    *)
(* gesture's start.                                                        *)
(***************************************************************************)
C19_Case ==
    /\ sel.kind = "Simple" /\ Resolved
    /\ sel.region.start.side = "Right" /\ sel.region.end.side = "Right"
    /\ sel.region.start.point.line # sel.region.end.point.line
    /\ InGrid(dims, sel.region.start.point)
    /\ InGrid(dims, sel.region.end.point)

C19_BothRightAcrossLines ==
    C19_Case
      => \E ft \in AnchorPairs :
            LET f == ft[1].point
                t == ft[2].point
            IN /\ f.line < t.line
               /\ out.span = Some(MkSpan(dims.col, f,
                                         Point(t.line, t.col + 1), "Inclusive"))

\* The drag of the test across_adjacent_lines_upward_final_cell_exclusive:
\* the start anchor is on the larger line, and the tail stays in the grid.
C19_Witness ==
    /\ C19_Case
    /\ sel.region.start.point.line > sel.region.end.point.line
    /\ out.span.some
    /\ out.span.val.front = sel.region.end.point
    /\ out.span.val.tail.col = sel.region.start.point.col + 1
    /\ out.span.val.tail.col < dims.col

(***************************************************************************)
(* C20: a Simple selection whose tail (after ordering) has a negative      *)
(* line, which happens exactly when rotate has moved both anchors to       *)
(* negative lines, resolves to None for either alt_screen value; a Simple  *)
(* selection with at least one anchor on a non-negative line is never      *)
(* rejected for that reason: when it resolves to None, its anchors are     *)
(* equal or are the two edges of the gap between adjacent cells.           *)
(***************************************************************************)
C20_BothNegative ==
    /\ sel.region.start.point.line < 0
    /\ sel.region.end.point.line < 0

C20_TailNegativeNone ==
    (sel.kind = "Simple" /\ Resolved)
      => LET o == SimpleOrdered
         IN /\ (o.tail.line < 0) <=> C20_BothNegative
            /\ C20_BothNegative => (rotated /\ rotSum < 0)
            /\ o.tail.line < 0 => out.span = None
            /\ (~C20_BothNegative /\ out.span = None)
                 => \/ (o.front = o.tail /\ o.front_side = o.tail_side)
                    \/ (o.tail_side = "Right" /\ o.front_side = "Left"
                          /\ o.front.line = o.tail.line
                          /\ o.front.col = o.tail.col + 1)

\* Two different anchors rotated below line 0 and resolved on the
\* alternate screen: None.
C20_Witness ==
    /\ sel.kind = "Simple" /\ Resolved
    /\ C20_BothNegative
    /\ SimpleOrdered.tail.line < 0
    /\ sel.region.start.point.col < sel.region.end.point.col
    /\ sel.region.start.side = "Left" /\ sel.region.end.side = "Right"
    /\ out.alt_screen
    /\ out.span = None

(***************************************************************************)
(* C21: with alt_screen active, a Simple selection whose front (after      *)
(* ordering and side adjustment) has a negative line while its tail has a  *)
(* non-negative line resolves to a Span whose front is exactly (line 0,    *)
(* column cols - 1); with alt_screen inactive no such clamp is applied:    *)
(* the front is the adjusted front, converted to an unsigned point.        *)
(***************************************************************************)
\* The front after ordering and side adjustment.
SimpleAdjustedFront ==
    simple_shrink_front(SimpleOrdered, sel.region.start.point,
                        sel.region.end.point, dims.col)

C21_Case ==
    /\ sel.kind = "Simple" /\ Resolved
    /\ SimpleAdjustedFront.line < 0
    /\ SimpleOrdered.tail.line >= 0

C21_ClampFrontOnAltScreen ==
    C21_Case
      => /\ out.span.some
         /\ out.alt_screen
              => out.span.val.front = Point(0, dims.col - 1)
         /\ ~out.alt_screen
              => /\ Ends(sel, dims, FALSE).val.front = SimpleAdjustedFront
                 /\ out.span.val.front = IntoUsize(SimpleAdjustedFront)

\* A front anchor left of the last column, rotated below line 0, while the
\* tail anchor is still on screen; resolved on the alternate screen.
C21_Witness ==
    /\ C21_Case
    /\ out.alt_screen
    /\ dims.col > 1
    /\ SimpleAdjustedFront.col < dims.col - 1
    /\ out.span.some
    /\ out.span.val.front = Point(0, dims.col - 1)
    /\ out.span.val.tail.line = SimpleOrdered.tail.line

(***************************************************************************)
(* C22: with alt_screen inactive, Semantic and Lines selections never      *)
(* resolve to None; with alt_screen active they resolve to None exactly    *)
(* when the whole selected row range (for Lines including initial_line)    *)
(* lies at lines >= the grid's line count, or the whole range lies at      *)
(* negative lines.                                                         *)
(***************************************************************************)
C22_NoneIffWhollyOffScreen ==
    (sel.kind \in {"Semantic", "Lines"} /\ Resolved)
      => /\ ~out.alt_screen => out.span.some
         /\ out.alt_screen
              => (out.span = None
                    <=> \/ \A l \in SelLines(sel) : l >= dims.line
                        \/ \A l \in SelLines(sel) : l < 0)

\* A Semantic selection over two cells, rotated below line 0 and resolved
\* on the alternate screen: None.
C22_Witness ==
    /\ sel.kind = "Semantic" /\ Resolved
    /\ out.alt_screen
    /\ sel.region.start # sel.region.end
    /\ \A l \in SelLines(sel) : l < 0
    /\ out.span = None

(***************************************************************************)
(* The endpoints of a Semantic region in Point order.                      *)
(***************************************************************************)
SemanticFront ==
    IF PointLt(sel.region.start, sel.region.end)
    THEN sel.region.start ELSE sel.region.end

SemanticTail ==
    IF PointLt(sel.region.start, sel.region.end)
    THEN sel.region.end ELSE sel.region.start

(***************************************************************************)
(* C23: with alt_screen active and a Semantic selection that is only       *)
(* partly off-screen, the points handed to the semantic search are clamped *)
(* first: a tail at a line >= the line count is replaced by a point on the *)
(* last visible row (line = lines - 1), and a front at a negative line is  *)
(* replaced by (line 0, last column); endpoints already inside the         *)
(* viewport are passed unchanged.  Both points handed to the search are    *)
(* then cells of the grid.                                                 *)
(***************************************************************************)
C23_SearchPointsClamped ==
    (sel.kind = "Semantic" /\ Resolved /\ out.alt_screen /\ out.span.some)
      => LET e == Ends(sel, dims, TRUE).val
         IN /\ SemanticTail.line >= dims.line => e.tail.line = dims.line - 1
            /\ SemanticFront.line < 0 => e.front = Point(0, dims.col - 1)
            /\ InGrid(dims, SemanticTail) => e.tail = SemanticTail
            /\ InGrid(dims, SemanticFront) => e.front = SemanticFront
            /\ InGrid(dims, e.front) /\ InGrid(dims, e.tail)

\* A Semantic selection whose tail was rotated above the viewport while its
\* front is on screen, resolved on the alternate screen.
C23_Witness ==
    /\ sel.kind = "Semantic" /\ Resolved /\ out.alt_screen /\ out.span.some
    /\ SemanticTail.line >= dims.line
    /\ SemanticTail.col > 0
    /\ InGrid(dims, SemanticFront)
    /\ Ends(sel, dims, TRUE).val.tail.line = dims.line - 1
    /\ Ends(sel, dims, TRUE).val.front = SemanticFront

(***************************************************************************)
(* C24: in Semantic resolution, with (front, tail) the region endpoints in *)
(* Point order: if front < tail and both are on the same line, the result  *)
(* is built from semantic_search_left(front) and                           *)
(* semantic_search_right(tail); in every other case (front = tail, or      *)
(* endpoints on different lines) it is built from                          *)
(* semantic_search_right(front) and semantic_search_left(tail).  The       *)
(* points searched from are the endpoints as handed to the search, after   *)
(* the clamps of the alternate screen.                                     *)
(***************************************************************************)
C24_Forward ==
    /\ PointLt(SemanticFront, SemanticTail)
    /\ SemanticFront.line = SemanticTail.line

C24_SearchDirection ==
    (sel.kind = "Semantic" /\ Resolved /\ out.span.some)
      => LET e == Ends(sel, dims, out.alt_screen).val
             f == IntoUsize(e.front)
             t == IntoUsize(e.tail)
             span == out.span.val
         IN IF C24_Forward
            THEN {span.front, span.tail}
                   = {semantic_search_left(dims, out.seps, f),
                      semantic_search_right(dims, out.seps, t)}
            ELSE {span.front, span.tail}
                   = {semantic_search_right(dims, out.seps, f),
                      semantic_search_left(dims, out.seps, t)}

\* A Semantic selection across two lines of a grid without separators: the
\* front expands to the end of its line and the tail to the start of its
\* line, where the other direction would give other points.
C24_Witness ==
    /\ sel.kind = "Semantic" /\ Resolved /\ out.span.some
    /\ ~C24_Forward
    /\ InGrid(dims, SemanticFront) /\ InGrid(dims, SemanticTail)
    /\ SemanticFront.line < SemanticTail.line
    /\ SemanticFront.col = 0 /\ dims.col > 1
    /\ out.seps = {}
    /\ out.span.val.front = Point(SemanticFront.line, dims.col - 1)
    /\ out.span.val.tail = Point(SemanticTail.line, 0)

(***************************************************************************)
(* C25: for every Semantic selection that resolves to a Span, the Span's   *)
(* front is the smaller and its tail the larger of the two expanded points *)
(* in Point order (front <= tail), the type is Inclusive and cols is the   *)
(* grid's column count; in particular a Semantic selection with no drag at *)
(* point p resolves to the ordered pair of semantic_search_left(p) and     *)
(* semantic_search_right(p).                                               *)
(***************************************************************************)
PointMin(a, b) == IF PointLt(b, a) THEN b ELSE a

PointMax(a, b) == IF PointLt(b, a) THEN a ELSE b

\* The two points the semantic search returned for the resolved selection.
C25_Expanded ==
    LET e == Ends(sel, dims, out.alt_screen).val
        f == IntoUsize(e.front)
        t == IntoUsize(e.tail)
    IN IF PointLt(e.front, e.tail) /\ e.front.line = e.tail.line
       THEN <<semantic_search_left(dims, out.seps, f),
              semantic_search_right(dims, out.seps, t)>>
       ELSE <<semantic_search_right(dims, out.seps, f),
              semantic_search_left(dims, out.seps, t)>>

C25_SemanticSpanOrdered ==
    (sel.kind = "Semantic" /\ Resolved /\ out.span.some)
      => LET span == out.span.val
             x == C25_Expanded
         IN /\ span = MkSpan(dims.col, PointMin(x[1], x[2]),
                             PointMax(x[1], x[2]), "Inclusive")
            /\ PointLe(span.front, span.tail)
            /\ sel.region.start = sel.region.end
                 => LET p == IntoUsize(sel.region.start)
                        l == semantic_search_left(dims, out.seps, p)
                        r == semantic_search_right(dims, out.seps, p)
                    IN /\ span.front = PointMin(l, r)
                       /\ span.tail = PointMax(l, r)

\* A Semantic selection with no drag inside a word of two cells: the search
\* to the right is made first and returns the larger point, so the two
\* expanded points are exchanged.
C25_Witness ==
    /\ sel.kind = "Semantic" /\ Resolved /\ out.span.some
    /\ sel.region.start = sel.region.end
    /\ InGrid(dims, sel.region.start)
    /\ PointLt(C25_Expanded[2], C25_Expanded[1])
    /\ out.span.val.front = C25_Expanded[2]
    /\ out.span.val.tail = C25_Expanded[1]
    /\ out.span.val.front.col < out.span.val.tail.col

(***************************************************************************)
(* C26: with alt_screen inactive and all lines non-negative, a Lines       *)
(* selection resolves to the Span with front.line = min(initial_line,      *)
(* region.start.line, region.end.line) and tail.line = max(initial_line,   *)
(* region.start.line, region.end.line); the result is unchanged when       *)
(* region.start and region.end are exchanged.                              *)
(***************************************************************************)
C26_Case ==
    /\ sel.kind = "Lines" /\ Resolved /\ ~out.alt_screen
    /\ \A l \in SelLines(sel) : l >= 0

C26_LinesMinMax ==
    C26_Case
      => LET lo == Min(sel.initial_line,
                       Min(sel.region.start.line, sel.region.end.line))
             hi == Max(sel.initial_line,
                       Max(sel.region.start.line, sel.region.end.line))
             exchanged == [start |-> sel.region.end, end |-> sel.region.start]
         IN /\ out.span.some
            /\ out.span.val.front.line = lo
            /\ out.span.val.tail.line = hi
            /\ span_lines(dims, exchanged, sel.initial_line, FALSE) = out.span

\* A Lines selection dragged downward from its first row, rotated, and
\* resolved: the Span runs from the end's row up to the start's row.
C26_Witness ==
    /\ C26_Case
    /\ rotSum # 0
    /\ sel.region.start.line > sel.region.end.line
    /\ out.span.some
    /\ out.span.val.front.line = sel.region.end.line
    /\ out.span.val.tail.line = sel.region.start.line

(***************************************************************************)
(* C27: with alt_screen active and a grid of at least one line, every Span *)
(* returned for a Lines selection has both front.line and tail.line inside *)
(* the viewport, 0 <= line <= lines - 1, whatever rotate offsets were      *)
(* applied to the selection.                                               *)
(***************************************************************************)
C27_LinesInViewport ==
    (sel.kind = "Lines" /\ Resolved /\ out.alt_screen /\ out.span.some)
      => LET e == Ends(sel, dims, TRUE).val
             span == out.span.val
         IN /\ 0 <= e.front.line /\ e.front.line <= dims.line - 1
            /\ 0 <= e.tail.line /\ e.tail.line <= dims.line - 1
            /\ 0 <= span.front.line /\ span.front.line <= dims.line - 1
            /\ 0 <= span.tail.line /\ span.tail.line <= dims.line - 1

\* A Lines selection dragged upward and rotated so that its first row is
\* below the viewport and its end still on screen: the Span starts on row 0.
C27_Witness ==
    /\ sel.kind = "Lines" /\ Resolved /\ out.alt_screen /\ out.span.some
    /\ rotSum < 0
    /\ sel.initial_line < 0
    /\ sel.region.end.line >= 0
    /\ out.span.val.front.line = 0
    /\ out.span.val.tail.line = sel.region.end.line

(***************************************************************************)
(* C28: to_locations on a Span of type Exclusive or ExcludeTail whose tail *)
(* is at line 0, column 0 completes without a fault and returns an end     *)
(* column inside the grid (0 <= col < cols): the column is not decremented *)
(* below 0.                                                                *)
(***************************************************************************)
C28_WrapEndAtOrigin ==
    (out.op \in {"locations", "panic"}
       /\ out.span.val.ty \in {"Exclusive", "ExcludeTail"}
       /\ out.span.val.tail = Point(0, 0))
      => /\ out.op = "locations"
         /\ 0 <= out.locations.end.col
         /\ out.locations.end.col < out.span.val.cols

(***************************************************************************)
(* C29: Simple resolution does not depend on drag direction: for any two   *)
(* anchors a and b, the selection with region.start = a and region.end = b *)
(* and the selection with region.start = b and region.end = a give equal   *)
(* to_span results for the same geometry and alt_screen value.             *)
(***************************************************************************)
C29_Exchanged == [start |-> sel.region.end, end |-> sel.region.start]

C29_DirectionIndependent ==
    (sel.kind = "Simple" /\ Resolved)
      => /\ span_simple(dims, C29_Exchanged, out.alt_screen) = out.span
         /\ to_span([sel EXCEPT !.region = C29_Exchanged], dims, out.seps,
                    out.alt_screen) = out.span

\* Two anchors on different cells with different sides, the front one of
\* side Left: both drag directions give the Span that was returned.
C29_Witness ==
    /\ sel.kind = "Simple" /\ Resolved /\ out.span.some
    /\ sel.region.start.point # sel.region.end.point
    /\ sel.region.start.side # sel.region.end.side
    /\ SimpleOrdered.front_side = "Left"
    /\ SimpleOrdered.front = sel.region.end.point
    /\ out.span.val.front # sel.region.end.point
    /\ span_simple(dims, C29_Exchanged, out.alt_screen) = out.span

(***************************************************************************)
(* C30: with alt_screen inactive, for every Simple or Lines selection and  *)
(* every offset o such that all of the selection's lines are non-negative  *)
(* both before and after rotate(o): to_span after rotate(o) is None        *)
(* exactly when to_span before it is None, and otherwise equals the        *)
(* earlier Span with both endpoints' lines increased by o and their        *)
(* columns unchanged.                                                      *)
(***************************************************************************)
\* A Span with both endpoints moved by o lines.
SpanShifted(span, o) ==
    [span EXCEPT !.front.line = @ + o, !.tail.line = @ + o]

NonNegative(s) == \A l \in SelLines(s) : l >= 0

C30_RotateShiftsSpan ==
    (sel.kind \in {"Simple", "Lines"} /\ Resolved /\ ~out.alt_screen
       /\ NonNegative(sel))
      => \A o \in Offsets :
            NonNegative(rotate(sel, o))
              => LET after == to_span(rotate(sel, o), dims, out.seps, FALSE)
                 IN /\ (after = None) <=> (out.span = None)
                    /\ out.span.some
                         => after = Some(SpanShifted(out.span.val, o))

\* A Simple selection over several cells, rotated by a net offset other
\* than 0 since its latest update and resolved: its Span is the Span of the
\* selection before those rotations, moved by that offset.
C30_Witness ==
    /\ sel.kind = "Simple" /\ Resolved /\ ~out.alt_screen
    /\ lastUpd.some /\ rotSinceUpd # 0
    /\ NonNegative(sel)
    /\ NonNegative(rotate(sel, -rotSinceUpd))
    /\ out.span.some
    /\ out.span.val.front # out.span.val.tail
    /\ out.span =
         Some(SpanShifted(
                to_span(rotate(sel, -rotSinceUpd), dims, out.seps, FALSE).val,
                rotSinceUpd))

====
